---- MODULE Spec2Model ----
(***************************************************************************)
(* Model of the Verta reputation program (src/src/lib.rs): one entry point *)
(* process_instruction that decodes a Borsh instruction and runs one of    *)
(* process_register_user, process_add_karma, process_update_level against  *)
(* the accounts the host hands in.                                         *)
(*                                                                         *)
(* A u64 is kept at its full width as four 16-bit limbs, least significant *)
(* first (TLC's integers are 32 bits wide); account data and instruction   *)
(* data are byte sequences, as on the ledger.                              *)
(***************************************************************************)
EXTENDS Integers, Sequences, FiniteSets, TLC

----------------------------------------------------------------------------
(* Bounds of the model *)

\* AddKarma calls that reach the addition, over one behaviour
MaxAddCalls == 2
\* lamports the ledger asks per byte of account space (Rent::minimum_balance)
LamportsPerByte == 1

----------------------------------------------------------------------------
(* u64 arithmetic on limbs *)

\* one limb holds 16 of the 64 bits of a u64
LimbBase == 65536

\* the u64 of a small natural (n < 2^31)
U64(n) == << n % LimbBase, (n \div LimbBase) % LimbBase, 0, 0 >>

U64_MAX == << LimbBase - 1, LimbBase - 1, LimbBase - 1, LimbBase - 1 >>

\* carry out of the most significant limb of a + b: the sum exceeds u64::MAX
add_overflows(a, b) ==
    LET c1 == (a[1] + b[1]) \div LimbBase
        c2 == (a[2] + b[2] + c1) \div LimbBase
        c3 == (a[3] + b[3] + c2) \div LimbBase
    IN  (a[4] + b[4] + c3) \div LimbBase = 1

\* a plausible slip: the carry between limbs is lost
wrapping_add_no_carry(a, b) ==
    << (a[1] + b[1]) % LimbBase, (a[2] + b[2]) % LimbBase,
       (a[3] + b[3]) % LimbBase, (a[4] + b[4]) % LimbBase >>

\* a + b modulo 2^64
wrapping_add(a, b) ==
    LET s1 == a[1] + b[1]
        s2 == a[2] + b[2] + (s1 \div LimbBase)
        s3 == a[3] + b[3] + (s2 \div LimbBase)
        s4 == a[4] + b[4] + (s3 \div LimbBase)
    IN  << s1 % LimbBase, s2 % LimbBase, s3 % LimbBase, s4 % LimbBase >>

\* a / d for a small divisor d (u64 division truncates), by long division
div_small(a, d) ==
    LET q4 == a[4] \div d
        r4 == a[4] % d
        n3 == r4 * LimbBase + a[3]
        n2 == (n3 % d) * LimbBase + a[2]
        n1 == (n2 % d) * LimbBase + a[1]
    IN  << n1 \div d, n2 \div d, n3 \div d, q4 >>

\* `x as u8`: the low 8 bits
as_u8(x) == x[1] % 256

\* a u8 widened to u64
u8_as_u64(b) == << b, 0, 0, 0 >>

\* a <= b on u64
U64Leq(a, b) ==
    \/ a = b
    \/ \E i \in 1..4 : /\ a[i] < b[i]
                       /\ \A j \in (i + 1)..4 : a[j] = b[j]

----------------------------------------------------------------------------
(* Borsh layout of UserAccount and VertaInstruction *)

\* little-endian bytes of a u64
u64_to_le_bytes(x) ==
    << x[1] % 256, x[1] \div 256, x[2] % 256, x[2] \div 256,
       x[3] % 256, x[3] \div 256, x[4] % 256, x[4] \div 256 >>

\* a slip: the bytes are read most significant first
u64_from_be_bytes(b) ==
    << b[8] + 256 * b[7], b[6] + 256 * b[5], b[4] + 256 * b[3], b[2] + 256 * b[1] >>

\* the u64 of 8 little-endian bytes
u64_from_le_bytes(b) ==
    << b[1] + 256 * b[2], b[3] + 256 * b[4], b[5] + 256 * b[6], b[7] + 256 * b[8] >>

\* a slip: the size leaves out the byte of level
LEN_without_level == Len(u64_to_le_bytes(U64(0)))

\* UserAccount::LEN, the space asked for at creation
LEN == 8 + 1

UserAccount(karma, level) == [karma |-> karma, level |-> level]

\* BorshSerialize for UserAccount: karma as 8 bytes, then level as 1 byte
serialize(account_data) ==
    u64_to_le_bytes(account_data.karma) \o << account_data.level >>

\* a slip: an absent record reads as the zero record instead of failing
try_from_slice_zero_pad(data) ==
    IF Len(data) = 0
    THEN [ok |-> TRUE, value |-> UserAccount(U64(0), 0)]
    ELSE IF Len(data) # 8 + 1
    THEN [ok |-> FALSE, value |-> UserAccount(U64(0), 0)]
    ELSE [ok |-> TRUE,
          value |-> UserAccount(u64_from_le_bytes(SubSeq(data, 1, 8)), data[9])]

\* UserAccount::try_from_slice: fails unless the slice is exactly the 9 bytes
\* of one record (too short: unexpected length; too long: not all bytes read)
try_from_slice(data) ==
    IF Len(data) # 8 + 1
    THEN [ok |-> FALSE, value |-> UserAccount(U64(0), 0)]
    ELSE [ok |-> TRUE,
          value |-> UserAccount(u64_from_le_bytes(SubSeq(data, 1, 8)), data[9])]

\* a slip: a tag no instruction has falls through to the last instruction
instruction_try_from_slice_default_arm(instruction_data) ==
    LET n == Len(instruction_data)
        bad == [ok |-> FALSE, tag |-> "None", amount |-> U64(0)]
    IN  IF n = 0 THEN bad
        ELSE IF instruction_data[1] = 0
        THEN IF n = 1 THEN [ok |-> TRUE, tag |-> "RegisterUser", amount |-> U64(0)]
             ELSE bad
        ELSE IF instruction_data[1] = 1
        THEN IF n = 9
             THEN [ok |-> TRUE, tag |-> "AddKarma",
                   amount |-> u64_from_le_bytes(SubSeq(instruction_data, 2, 9))]
             ELSE bad
        ELSE IF n = 1 THEN [ok |-> TRUE, tag |-> "UpdateLevel", amount |-> U64(0)]
        ELSE bad

\* VertaInstruction::try_from_slice: one tag byte, AddKarma followed by the
\* 8 bytes of amount, and no byte left over
instruction_try_from_slice(instruction_data) ==
    LET n == Len(instruction_data)
        bad == [ok |-> FALSE, tag |-> "None", amount |-> U64(0)]
    IN  IF n = 0 THEN bad
        ELSE IF instruction_data[1] = 0
        THEN IF n = 1 THEN [ok |-> TRUE, tag |-> "RegisterUser", amount |-> U64(0)]
             ELSE bad
        ELSE IF instruction_data[1] = 1
        THEN IF n = 9
             THEN [ok |-> TRUE, tag |-> "AddKarma",
                   amount |-> u64_from_le_bytes(SubSeq(instruction_data, 2, 9))]
             ELSE bad
        ELSE IF instruction_data[1] = 2
        THEN IF n = 1 THEN [ok |-> TRUE, tag |-> "UpdateLevel", amount |-> U64(0)]
             ELSE bad
        ELSE bad

----------------------------------------------------------------------------
(* The ledger: keys, owners, accounts *)

\* program_id: the key the host passes to process_instruction
program_id == "verta"
SYSTEM_PROGRAM == "system_program"
OTHER_PROGRAM == "other_program"
NATIVE_LOADER == "native_loader"

\* keys are tuples, so that a derived key is built from what it is derived of
Key(name) == << name >>
Users == {Key("P1"), Key("P2")}
system_program_key == Key(SYSTEM_PROGRAM)
stray_key == Key("stray")

\* the bump find_program_address settles on (255 downwards; the model fixes it)
BumpOf(seeds) == 255

\* Pubkey::create_program_address: the key derived from seeds (bump last)
create_program_address(seeds_with_bump, pid) ==
    << pid >> \o SubSeq(seeds_with_bump, 1, Len(seeds_with_bump) - 1)

\* Pubkey::find_program_address(&[b"user", user.key], program_id)
find_program_address(seeds, pid) ==
    [pda  |-> create_program_address(seeds \o << BumpOf(seeds) >>, pid),
     bump |-> BumpOf(seeds)]

\* a slip: the seeds leave out the user's key
user_seeds_without_key(user) == << "user" >>

\* the seeds of a user's record: b"user" and the user's key
user_seeds(user) == << "user" >> \o user

PdaOf(user) == find_program_address(user_seeds(user), program_id).pda

Pdas == {PdaOf(u) : u \in Users}

Keys == Users \cup Pdas \cup {stray_key, system_program_key}

Account(lamports, owner, data) ==
    [lamports |-> lamports, owner |-> owner, data |-> data]

\* Rent::get()?.minimum_balance(space)
minimum_balance(space) == space * LamportsPerByte

zeroes(n) == [i \in 1..n |-> 0]

\* AccountInfo::data_is_empty
data_is_empty(account) == Len(account.data) = 0

Result(res, accts) == [res |-> res, accts |-> accts]

----------------------------------------------------------------------------
(* The system program's create_account, reached through invoke_signed *)

\* invoke_signed(create_account(from, to, lamports, space, owner), infos, seeds):
\* the system program must be among the accounts of the call, from and to must
\* sign (to through the seeds of the calling program), to must be unused and
\* from must hold the lamports; a failure leaves every account as it was
invoke_signed_create_account(accts, from, to, lamports, space, owner, account_infos, signers, signers_seeds) ==
    IF ~(\E i \in 1..Len(account_infos) : account_infos[i] = system_program_key)
    THEN Result("MissingAccount", accts)
    ELSE IF \/ from \notin signers
            \/ /\ to \notin signers
               /\ to # create_program_address(signers_seeds, program_id)
    THEN Result("MissingRequiredSignature", accts)
    ELSE IF \/ accts[to].lamports > 0
            \/ ~data_is_empty(accts[to])
            \/ accts[to].owner # SYSTEM_PROGRAM
    THEN Result("AccountAlreadyInUse", accts)
    ELSE IF accts[from].lamports < lamports
    THEN Result("InsufficientFunds", accts)
    ELSE Result("Ok",
           [accts EXCEPT
              ![from] = Account(accts[from].lamports - lamports,
                                accts[from].owner, accts[from].data),
              ![to] = Account(lamports, owner, zeroes(space))])

\* BorshSerialize::serialize(&account_data, &mut &mut data[..]): the bytes
\* of the record go over the start of the account's data; data too short to
\* take them all is filled and the write fails
write_record(data, account_data) ==
    LET bytes == serialize(account_data)
        n == Len(bytes)
    IN  IF Len(data) >= n
        THEN [ok |-> TRUE, data |-> bytes \o SubSeq(data, n + 1, Len(data))]
        ELSE [ok |-> FALSE, data |-> SubSeq(bytes, 1, Len(data))]

----------------------------------------------------------------------------
(* The handlers.  handles is the sequence of account keys of the call,     *)
(* signers the keys that signed the transaction; each handler returns its  *)
(* result and the accounts as it leaves them.                              *)

\* is_signer of the AccountInfo of a key
is_signer(key, signers) == key \in signers

\* a slip: the signature of the user is not asked for
signer_check_skipped(user, signers) == FALSE

\* line 116: the user must have signed
signer_check_fails(user, signers) == ~is_signer(user, signers)

\* a slip: the derived key is not compared with the key handed in
pda_check_skipped(user, user_pda) == FALSE

\* lines 122-123: the key handed in is not the one derived for the user
pda_check_fails(user, user_pda) ==
    find_program_address(user_seeds(user), program_id).pda # user_pda

\* a slip: content owned by another program is taken for a record of this one
owner_check_skipped(account) == FALSE

\* line 129: the account has content and another program owns it
owner_check_fails(account) ==
    account.owner # program_id /\ ~data_is_empty(account)

\* a slip: the creation is signed with seeds that leave out b"user"
signers_seeds_without_prefix(user, bump) == user \o << bump >>

\* line 154: the seeds the creation is signed with, &[b"user", user.key, &[bump]]
signers_seeds(user, bump) == << "user" >> \o user \o << bump >>

\* a slip: the lamports asked of the user are one more than the rent
rent_required_plus_one == minimum_balance(LEN) + 1

\* lines 138-139: the rent of an account of LEN bytes
rent_required == minimum_balance(LEN)

\* lines 135-161: create the account through the system program, then write
\* the initial record into it
create_user_account(accts, user, user_pda, account_infos, signers) ==
    LET space == LEN
        bump == find_program_address(user_seeds(user), program_id).bump
        created == invoke_signed_create_account(accts, user, user_pda,
                       rent_required, space, program_id, account_infos,
                       signers, signers_seeds(user, bump))
        written == write_record(created.accts[user_pda].data,
                                UserAccount(U64(0), 0))
    IN  IF created.res # "Ok" THEN created
        ELSE Result(IF written.ok THEN "Ok" ELSE "BorshIoError",
                    [created.accts EXCEPT ![user_pda].data = written.data])

\* a slip: registering again writes the initial record again
reset_existing(accts, user_pda) ==
    [accts EXCEPT ![user_pda].data = write_record(@, UserAccount(U64(0), 0)).data]

\* a slip: registering again empties the account
clear_existing(accts, user_pda) == [accts EXCEPT ![user_pda].data = << >>]

\* lines 163-166: the account exists, nothing is written
skip_creation(accts, user_pda) == accts

process_register_user(accts, handles, signers) ==
    IF Len(handles) < 3 THEN Result("NotEnoughAccountKeys", accts)
    ELSE
    LET user == handles[1]
        user_pda == handles[2]
    IN  IF signer_check_fails(user, signers)
        THEN Result("MissingRequiredSignature", accts)
        ELSE IF pda_check_fails(user, user_pda)
        THEN Result("InvalidArgument", accts)
        ELSE IF owner_check_fails(accts[user_pda])
        THEN Result("IncorrectProgramId", accts)
        ELSE IF data_is_empty(accts[user_pda])
        THEN create_user_account(accts, user, user_pda, handles, signers)
        ELSE Result("Ok", skip_creation(accts, user_pda))

\* line 194, `account_data.karma += amount`: a build with overflow checks
\* panics when the sum exceeds u64::MAX, a build without them wraps
add_karma(karma, amount, overflow_checks_on) ==
    IF add_overflows(karma, amount) /\ overflow_checks_on
    THEN [panic |-> TRUE, karma |-> karma]
    ELSE [panic |-> FALSE, karma |-> wrapping_add(karma, amount)]

process_add_karma(accts, handles, amount, overflow_checks_on) ==
    IF Len(handles) < 1 THEN Result("NotEnoughAccountKeys", accts)
    ELSE
    LET user_to_update_pda == handles[1]
        decoded == try_from_slice(accts[user_to_update_pda].data)
        account_data == decoded.value
        sum == add_karma(account_data.karma, amount, overflow_checks_on)
        written == write_record(accts[user_to_update_pda].data,
                                UserAccount(sum.karma, account_data.level))
    IN  IF ~decoded.ok THEN Result("BorshIoError", accts)
        ELSE IF sum.panic THEN Result("Panic", accts)
        ELSE Result(IF written.ok THEN "Ok" ELSE "BorshIoError",
                    [accts EXCEPT ![user_to_update_pda].data = written.data])

\* line 226: (account_data.karma / 1000) as u8
new_level_of(karma) == as_u8(div_small(karma, 1000))

\* a slip: the level is written whenever it differs from the new one
level_differs(new_level, level) == new_level # level

\* line 227: the level is written only when the new one is higher
level_rises(new_level, level) == new_level > level

process_update_level(accts, handles) ==
    IF Len(handles) < 1 THEN Result("NotEnoughAccountKeys", accts)
    ELSE
    LET user_pda == handles[1]
        decoded == try_from_slice(accts[user_pda].data)
        account_data == decoded.value
        new_level == new_level_of(account_data.karma)
        written == write_record(accts[user_pda].data,
                                UserAccount(account_data.karma, new_level))
    IN  IF ~decoded.ok THEN Result("BorshIoError", accts)
        ELSE IF level_rises(new_level, account_data.level)
        THEN Result(IF written.ok THEN "Ok" ELSE "BorshIoError",
                    [accts EXCEPT ![user_pda].data = written.data])
        ELSE Result("Ok", accts)

process_instruction(accts, handles, signers, instruction_data, overflow_checks_on) ==
    LET instruction == instruction_try_from_slice(instruction_data)
    IN  IF ~instruction.ok THEN Result("InvalidInstructionData", accts)
        ELSE IF instruction.tag = "RegisterUser"
        THEN process_register_user(accts, handles, signers)
        ELSE IF instruction.tag = "AddKarma"
        THEN process_add_karma(accts, handles, instruction.amount, overflow_checks_on)
        ELSE process_update_level(accts, handles)

----------------------------------------------------------------------------
(* The host: one call of process_instruction per step *)

VARIABLES
    accounts,         \* the ledger: key -> [lamports, owner, data]
    overflow_checks,  \* whether the build panics on integer overflow
    last,             \* the last call: instruction, outcome, user and storage keys
    added,            \* per derived key, the exact sum of the amounts of the
                      \* AddKarma calls that reached the addition (5 limbs)
    add_calls,        \* number of those calls
    credited          \* per derived key, the exact sum of the amounts of the
                      \* AddKarma calls that succeeded (5 limbs)

vars == << accounts, overflow_checks, last, added, add_calls, credited >>

no_key == Key("none")

\* amounts of AddKarma the host may send
Amounts == {U64(500), U64(1000), U64(256000), U64_MAX}

register_user_data == << 0 >>
add_karma_data(amount) == << 1 >> \o u64_to_le_bytes(amount)
update_level_data == << 2 >>

\* instruction data no instruction decodes from: empty, unknown tag, bytes
\* left over, amount cut short
MalformedData == { << >>, << 3 >>, << 0, 0 >>, << 2, 0 >>, << 1, 244, 1 >> }

\* the accounts of a RegisterUser call, in the order the host hands them in:
\* user, storage, system program; also too few of them, a storage key other
\* than the derived one, no system program, a user key that cannot sign
RegisterHandleLists ==
    { << >>, << Key("P1"), PdaOf(Key("P1")) >> }
    \cup { << u, PdaOf(v), system_program_key >> : u \in Users, v \in Users }
    \cup { << Key("P1"), stray_key, system_program_key >>,
           << Key("P1"), PdaOf(Key("P1")), stray_key >>,
           << Key("P2"), PdaOf(Key("P2")), stray_key >>,
           << PdaOf(Key("P1")), PdaOf(Key("P1")), system_program_key >> }

\* the accounts of an AddKarma or UpdateLevel call: the storage first
StorageHandleLists ==
    { << >>, << PdaOf(Key("P1")), Key("P1") >> }
    \cup { << k >> : k \in Pdas \cup {stray_key, Key("P1")} }

\* the accounts of a call whose instruction data does not decode
MalformedHandleLists == { << >>, << PdaOf(Key("P1")) >> }

\* signers of the transaction: only users hold a private key
SignerSets == { {}, {Key("P1")}, {Key("P2")} }

\* a record of this program is stored under the key
IsRegistered(accts, key) ==
    accts[key].owner = program_id /\ try_from_slice(accts[key].data).ok

RecordAt(accts, key) == try_from_slice(accts[key].data).value

\* the exact sum s + a, s of 5 limbs and a of 4: no carry is dropped
RECURSIVE exact_add_from(_, _, _, _)
exact_add_from(s, a, i, carry) ==
    IF i > 5 THEN << >>
    ELSE LET t == s[i] + (IF i <= 4 THEN a[i] ELSE 0) + carry
         IN  << t % LimbBase >> \o exact_add_from(s, a, i + 1, t \div LimbBase)

exact_add(s, a) == exact_add_from(s, a, 1, 0)

\* the host keeps what a call wrote only if the call succeeded and changed the
\* data of no account that another program owns
host_outcome(pre, r) ==
    IF r.res # "Ok" THEN Result(r.res, pre)
    ELSE IF \E k \in Keys : /\ r.accts[k].data # pre[k].data
                            /\ r.accts[k].owner # program_id
    THEN Result("ExternalAccountDataModified", pre)
    ELSE r

\* what a record stored by another program looks like: 9 bytes of its own
foreign_data == serialize(UserAccount(U64(5000), 7))

InitAccounts(p2_lamports, squatted) ==
    [k \in Keys |->
        IF k = Key("P1") THEN Account(2 * minimum_balance(LEN) + 1, SYSTEM_PROGRAM, << >>)
        ELSE IF k = Key("P2") THEN Account(p2_lamports, SYSTEM_PROGRAM, << >>)
        ELSE IF k = system_program_key THEN Account(1, NATIVE_LOADER, << 1 >>)
        ELSE IF k = stray_key THEN Account(minimum_balance(LEN), OTHER_PROGRAM, foreign_data)
        ELSE IF k = PdaOf(Key("P2")) /\ squatted
             THEN Account(minimum_balance(LEN), OTHER_PROGRAM, foreign_data)
        ELSE Account(0, SYSTEM_PROGRAM, << >>)]

Init ==
    /\ overflow_checks \in BOOLEAN
    /\ \E world \in {"funded", "poor", "squatted"} :
         accounts = InitAccounts(
                      IF world = "poor" THEN minimum_balance(LEN) - 1
                                        ELSE minimum_balance(LEN),
                      world = "squatted")
    /\ last = [instr |-> "None", res |-> "None", user |-> no_key, key |-> no_key]
    /\ added = [k \in Pdas |-> << 0, 0, 0, 0, 0 >>]
    /\ add_calls = 0
    /\ credited = [k \in Pdas |-> << 0, 0, 0, 0, 0 >>]

\* one call: the handler runs on the accounts, the host keeps or drops what it did
Invoke(tag, handles, signers, instruction_data) ==
    LET r == process_instruction(accounts, handles, signers, instruction_data,
                                 overflow_checks)
        out == host_outcome(accounts, r)
        user == IF tag = "RegisterUser" /\ Len(handles) >= 1 THEN handles[1] ELSE no_key
        key == IF tag = "RegisterUser"
               THEN (IF Len(handles) >= 2 THEN handles[2] ELSE no_key)
               ELSE (IF Len(handles) >= 1 THEN handles[1] ELSE no_key)
    IN  /\ accounts' = out.accts
        /\ last' = [instr |-> tag, res |-> out.res, user |-> user, key |-> key]
        /\ UNCHANGED overflow_checks

RegisterUser ==
    \E handles \in RegisterHandleLists, signers \in SignerSets :
        /\ Invoke("RegisterUser", handles, signers, register_user_data)
        /\ UNCHANGED << added, add_calls, credited >>

AddKarma ==
    \E handles \in StorageHandleLists, amount \in Amounts :
        /\ add_calls < MaxAddCalls
        /\ Invoke("AddKarma", handles, {}, add_karma_data(amount))
        /\ IF Len(handles) >= 1 /\ handles[1] \in Pdas
              /\ IsRegistered(accounts, handles[1])
           THEN /\ added' = [added EXCEPT ![handles[1]] = exact_add(@, amount)]
                /\ add_calls' = add_calls + 1
                /\ credited' = IF last'.res = "Ok"
                               THEN [credited EXCEPT ![handles[1]] = exact_add(@, amount)]
                               ELSE credited
           ELSE UNCHANGED << added, add_calls, credited >>

UpdateLevel ==
    \E handles \in StorageHandleLists :
        /\ Invoke("UpdateLevel", handles, {}, update_level_data)
        /\ UNCHANGED << added, add_calls, credited >>

Malformed ==
    \E handles \in MalformedHandleLists, instruction_data \in MalformedData :
        /\ Invoke("Invalid", handles, {}, instruction_data)
        /\ UNCHANGED << added, add_calls, credited >>

Next == RegisterUser \/ AddKarma \/ UpdateLevel \/ Malformed

Spec == Init /\ [][Next]_vars

----------------------------------------------------------------------------
(* Claims.  The error names of the specification stand for the errors of   *)
(* the code: NotEnoughAccountHandles is NotEnoughAccountKeys, DecodeError  *)
(* is BorshIoError, IncorrectOwner is IncorrectProgramId.                  *)

Call(handles, signers, instruction_data) ==
    process_instruction(accounts, handles, signers, instruction_data,
                        overflow_checks)

\* floor(karma / 1000) of the record under a key, as a u64
FloorLevel(accts, key) == div_small(RecordAt(accts, key).karma, 1000)

\* C1: RegisterUser signed by a user on the user's derived key, the record
\* already there, succeeds and leaves every account (karma and level of the
\* record included) as it was
C1_RegisterUserIdempotent ==
    \A u \in Users, t \in {system_program_key, stray_key} :
        IsRegistered(accounts, PdaOf(u)) =>
            LET r == Call(<< u, PdaOf(u), t >>, {u}, register_user_data)
            IN  r.res = "Ok" /\ r.accts = accounts

\* a RegisterUser has just succeeded on a record with karma and level past 0
C1_Witness ==
    /\ last.instr = "RegisterUser" /\ last.res = "Ok"
    /\ last.key = PdaOf(last.user)
    /\ IsRegistered(accounts, last.key)
    /\ RecordAt(accounts, last.key).karma # U64(0)
    /\ RecordAt(accounts, last.key).level # 0

\* C2: AddKarma whose sum exceeds u64::MAX fails with ArithmeticOverflow and
\* leaves the stored karma as it was
C2_AddKarmaNeverWraps ==
    \A p \in Pdas, amount \in Amounts :
        (IsRegistered(accounts, p)
           /\ add_overflows(RecordAt(accounts, p).karma, amount)) =>
            LET r == Call(<< p >>, {}, add_karma_data(amount))
            IN  r.res = "ArithmeticOverflow" /\ r.accts = accounts

\* C3: the level of a record never exceeds floor(karma / 1000)
C3_LevelAtMostFloor ==
    \A p \in Pdas :
        IsRegistered(accounts, p) =>
            U64Leq(u8_as_u64(RecordAt(accounts, p).level), FloorLevel(accounts, p))

\* C4: right after a successful UpdateLevel on a record, level is
\* floor(karma / 1000)
C4_UpdateLevelSetsFloor ==
    (last.instr = "UpdateLevel" /\ last.res = "Ok"
       /\ last.key \in Pdas /\ IsRegistered(accounts, last.key)) =>
        u8_as_u64(RecordAt(accounts, last.key).level) = FloorLevel(accounts, last.key)

\* C5: while the exact sum of the amounts added to a record fits a u64, the
\* stored karma is that sum
C5_KarmaIsSumOfAmounts ==
    \A p \in Pdas :
        (IsRegistered(accounts, p) /\ added[p][5] = 0) =>
            RecordAt(accounts, p).karma = SubSeq(added[p], 1, 4)

\* two amounts, 500 and 1000, were added to a record and an UpdateLevel ran
C5_Witness ==
    \E p \in Pdas :
        /\ IsRegistered(accounts, p)
        /\ add_calls = 2
        /\ added[p] = << 1500, 0, 0, 0, 0 >>
        /\ RecordAt(accounts, p) = UserAccount(U64(1500), 1)

\* every call the host sends in the model
AllCalls ==
    { [handles |-> h, signers |-> sg, data |-> register_user_data] :
        h \in RegisterHandleLists, sg \in SignerSets }
    \cup { [handles |-> h, signers |-> {}, data |-> add_karma_data(a)] :
        h \in StorageHandleLists, a \in Amounts }
    \cup { [handles |-> h, signers |-> {}, data |-> update_level_data] :
        h \in StorageHandleLists }
    \cup { [handles |-> h, signers |-> {}, data |-> d] :
        h \in MalformedHandleLists, d \in MalformedData }

\* C6: a call that ends in an error hands back every account (existence,
\* owner, data, lamports) as it received it
C6_ErrorsChangeNothing ==
    \A c \in AllCalls :
        LET r == Call(c.handles, c.signers, c.data)
        IN  r.res # "Ok" => r.accts = accounts

\* the creation of an account has just failed for want of lamports
C6_Witness ==
    /\ last.instr = "RegisterUser" /\ last.res = "InsufficientFunds"
    /\ last.key = PdaOf(last.user)
    /\ data_is_empty(accounts[last.key])

\* C7: AddKarma and UpdateLevel on an account without data fail with
\* BorshIoError and leave every account as it was
C7_NoRecordNoUpdate ==
    \A k \in Keys :
        data_is_empty(accounts[k]) =>
            \A d \in {update_level_data} \cup {add_karma_data(a) : a \in Amounts} :
                LET r == Call(<< k >>, {}, d)
                IN  r.res = "BorshIoError" /\ r.accts = accounts

\* an AddKarma has just failed on a derived key that holds no record
C7_Witness ==
    /\ last.instr = "AddKarma" /\ last.res = "BorshIoError"
    /\ last.key \in Pdas
    /\ data_is_empty(accounts[last.key])
    /\ ~IsRegistered(accounts, last.key)

\* C8: RegisterUser signed by the user, with three handles of which the
\* storage is not the key derived for the user, fails with InvalidArgument
\* and changes no account
C8_WrongAddressRejected ==
    \A u \in Users, t \in {system_program_key, stray_key} :
        \A k \in Keys \ {PdaOf(u)} :
            LET r == Call(<< u, k, t >>, {u}, register_user_data)
            IN  r.res = "InvalidArgument" /\ r.accts = accounts

\* a signed RegisterUser has just failed on the key derived for the other
\* user, which still holds nothing
C8_Witness ==
    /\ last.instr = "RegisterUser" /\ last.res = "InvalidArgument"
    /\ last.user \in Users
    /\ last.key \in Pdas /\ last.key # PdaOf(last.user)
    /\ data_is_empty(accounts[last.key])

\* C9: RegisterUser with three handles whose first has not signed fails with
\* MissingRequiredSignature and changes no account, whatever the handles are
C9_UnsignedRejected ==
    \A u \in Keys, k \in Pdas \cup {stray_key},
       t \in {system_program_key, stray_key}, sg \in SignerSets :
        u \notin sg =>
            LET r == Call(<< u, k, t >>, sg, register_user_data)
            IN  r.res = "MissingRequiredSignature" /\ r.accts = accounts

\* an unsigned RegisterUser has just failed on the user's own derived key,
\* empty, and the user still holds the lamports
C9_Witness ==
    /\ last.instr = "RegisterUser" /\ last.res = "MissingRequiredSignature"
    /\ last.user \in Users
    /\ last.key = PdaOf(last.user)
    /\ data_is_empty(accounts[last.key])
    /\ accounts[last.user].lamports >= minimum_balance(LEN)

\* C10: RegisterUser on the derived key, which already has data: fails with
\* IncorrectProgramId and changes nothing when another program owns it,
\* succeeds and changes nothing when this program owns it
C10_ForeignOwnerRejected ==
    \A u \in Users, t \in {system_program_key, stray_key} :
        ~data_is_empty(accounts[PdaOf(u)]) =>
            LET r == Call(<< u, PdaOf(u), t >>, {u}, register_user_data)
            IN  /\ r.accts = accounts
                /\ accounts[PdaOf(u)].owner # program_id
                      => r.res = "IncorrectProgramId"
                /\ r.res = "Ok" <=> accounts[PdaOf(u)].owner = program_id

\* a RegisterUser has just failed on a derived key that another program owns
C10_Witness ==
    /\ last.instr = "RegisterUser" /\ last.res = "IncorrectProgramId"
    /\ last.key = PdaOf(last.user)
    /\ accounts[last.key].owner = OTHER_PROGRAM
    /\ accounts[last.key].data = foreign_data

\* C11: RegisterUser signed by a user on the user's derived key, which holds
\* nothing: a success leaves there the record {karma 0, level 0} in exactly 9
\* bytes, owned by this program, and the call does succeed when the system
\* program is handed in, the key is unused and the user holds the rent, which
\* needs the creation to be signed with the seeds the key was derived from
C11_FirstRegistrationCreatesRecord ==
    \A u \in Users, t \in {system_program_key, stray_key} :
        data_is_empty(accounts[PdaOf(u)]) =>
            LET r == Call(<< u, PdaOf(u), t >>, {u}, register_user_data)
                pda == r.accts[PdaOf(u)]
            IN  /\ r.res = "Ok" =>
                    /\ pda.owner = program_id
                    /\ Len(pda.data) = 9
                    /\ pda.data = << 0, 0, 0, 0, 0, 0, 0, 0, 0 >>
                    /\ IsRegistered(r.accts, PdaOf(u))
                    /\ RecordAt(r.accts, PdaOf(u)) = UserAccount(U64(0), 0)
                /\ (/\ t = system_program_key
                    /\ accounts[PdaOf(u)].lamports = 0
                    /\ accounts[PdaOf(u)].owner = SYSTEM_PROGRAM
                    /\ accounts[u].lamports >= minimum_balance(9))
                      => r.res = "Ok"

\* the first RegisterUser of a user has just succeeded: the record is the
\* initial one and no karma was ever added to it
C11_Witness ==
    /\ last.instr = "RegisterUser" /\ last.res = "Ok"
    /\ last.user \in Users /\ last.key = PdaOf(last.user)
    /\ accounts[last.key] = Account(minimum_balance(9), program_id, zeroes(9))
    /\ added[last.key] = << 0, 0, 0, 0, 0 >>

\* instruction data of every length 1..8 after the tag 1
ShortAddKarmaData == { << 1 >> \o [i \in 1..n |-> 7] : n \in 0..7 }

\* instruction data that starts with a tag no instruction has, alone or
\* followed by 8 bytes
UnknownTagData ==
    { << tag >> : tag \in 3..255 }
    \cup { << tag >> \o u64_to_le_bytes(U64(500)) : tag \in {3, 255} }

\* C12: [0] is RegisterUser, [1] and 8 bytes is AddKarma of the little-endian
\* value of the bytes, [2] is UpdateLevel; empty data, an unknown tag and an
\* AddKarma cut short end the call with InvalidInstructionData before a
\* handler looks at the accounts (with no account at all a handler would
\* answer NotEnoughAccountKeys); the whole range of unknown tags is tried in
\* the states a malformed call has just left
C12_WireFormat ==
    /\ instruction_try_from_slice(<< 0 >>).ok
    /\ instruction_try_from_slice(<< 0 >>).tag = "RegisterUser"
    /\ instruction_try_from_slice(<< 2 >>).ok
    /\ instruction_try_from_slice(<< 2 >>).tag = "UpdateLevel"
    /\ instruction_try_from_slice(<< 1, 244, 1, 0, 0, 0, 0, 0, 0 >>)
         = [ok |-> TRUE, tag |-> "AddKarma", amount |-> U64(500)]
    /\ instruction_try_from_slice(<< 1, 0, 232, 3, 0, 0, 0, 0, 0 >>)
         = [ok |-> TRUE, tag |-> "AddKarma", amount |-> U64(256000)]
    /\ instruction_try_from_slice(<< 1, 1, 0, 0, 0, 0, 0, 0, 128 >>)
         = [ok |-> TRUE, tag |-> "AddKarma", amount |-> << 1, 0, 0, 32768 >>]
    /\ \A h \in MalformedHandleLists :
          /\ Call(h, {}, << 0 >>).res # "InvalidInstructionData"
          /\ Call(h, {}, << 2 >>).res # "InvalidInstructionData"
          /\ Call(h, {}, << 1, 244, 1, 0, 0, 0, 0, 0, 0 >>).res # "InvalidInstructionData"
          /\ \A d \in ShortAddKarmaData \cup {<< >>} :
                Call(h, {}, d) = Result("InvalidInstructionData", accounts)
    /\ last.instr = "Invalid" =>
          \A d \in UnknownTagData :
              Call(<< >>, {}, d) = Result("InvalidInstructionData", accounts)

\* a call with an unknown tag or a short amount has just been turned down
\* while a record was there to work on
C12_Witness ==
    /\ last.instr = "Invalid" /\ last.res = "InvalidInstructionData"
    /\ last.key \in Pdas
    /\ IsRegistered(accounts, last.key)
    /\ RecordAt(accounts, last.key).karma = U64(500)

\* the records the next call can write over the record under a key: any
\* amount added, the level as it is, as UpdateLevel would set it, or the
\* highest a u8 holds
NextRecords(key) ==
    LET now == RecordAt(accounts, key)
    IN  { UserAccount(k, l) :
            k \in {now.karma} \cup {wrapping_add(now.karma, a) : a \in Amounts},
            l \in {now.level, new_level_of(now.karma), 255} }

\* C13: a record serializes to exactly 9 bytes, the 8 of karma before the 1 of
\* level, and reads back as itself; fewer than 9 bytes do not read as a
\* record; the data of a record is what its reading serializes to
C13_RecordRoundTrip ==
    \A p \in Pdas :
        IsRegistered(accounts, p) =>
            /\ serialize(RecordAt(accounts, p)) = accounts[p].data
            /\ \A r \in NextRecords(p) :
                  /\ Len(serialize(r)) = 9
                  /\ SubSeq(serialize(r), 1, 8) = u64_to_le_bytes(r.karma)
                  /\ serialize(r)[9] = r.level
                  /\ try_from_slice(serialize(r)) = [ok |-> TRUE, value |-> r]
                  /\ \A n \in 0..8 : ~try_from_slice(SubSeq(serialize(r), 1, n)).ok

\* an AddKarma wrote a karma of three bytes, and the UpdateLevel after it read
\* it back: 257000 is E8 EB 03 in little-endian order, 257 as u8 is 1
C13_Witness ==
    \E p \in Pdas :
        /\ last.instr = "UpdateLevel" /\ last.res = "Ok" /\ last.key = p
        /\ accounts[p].owner = program_id
        /\ accounts[p].data = << 232, 235, 3, 0, 0, 0, 0, 0, 1 >>
        /\ RecordAt(accounts, p) = UserAccount(U64(257000), 1)

\* what a user has been charged for the record under the user's derived key:
\* the rent of 9 bytes once the record is there, nothing before
charged(accts, u) ==
    IF IsRegistered(accts, PdaOf(u)) THEN minimum_balance(9) ELSE 0

\* C14: the lamports of a user change only in a RegisterUser call of that
\* user that succeeds and creates the record under the user's derived key,
\* and then by exactly the minimum balance of 9 bytes, which the new account
\* receives; every other step (a repeated RegisterUser, AddKarma,
\* UpdateLevel, a failing call) leaves them alone; balance plus charge is the
\* same before and after every step, so a user is charged at most once
C14_ChargedOnceForCreation ==
    [][\A u \in Users :
         /\ accounts'[u].lamports + charged(accounts', u)
              = accounts[u].lamports + charged(accounts, u)
         /\ accounts'[u].lamports # accounts[u].lamports =>
              /\ last'.instr = "RegisterUser" /\ last'.res = "Ok"
              /\ last'.user = u /\ last'.key = PdaOf(u)
              /\ data_is_empty(accounts[PdaOf(u)])
              /\ IsRegistered(accounts', PdaOf(u))
              /\ accounts'[u].lamports = accounts[u].lamports - minimum_balance(9)
              /\ accounts'[PdaOf(u)].lamports
                   = accounts[PdaOf(u)].lamports + minimum_balance(9)
         /\ (last'.res # "Ok" \/ last'.instr # "RegisterUser"
                \/ IsRegistered(accounts, last'.key)) =>
              accounts'[u].lamports = accounts[u].lamports]_vars

\* a user charged once: RegisterUser has just succeeded again on a record
\* that already holds karma, and the balance is the first one less one rent
C14_Witness ==
    LET u == Key("P1")
    IN  /\ last.instr = "RegisterUser" /\ last.res = "Ok"
        /\ last.user = u /\ last.key = PdaOf(u)
        /\ IsRegistered(accounts, PdaOf(u))
        /\ RecordAt(accounts, PdaOf(u)).karma = U64(500)
        /\ accounts[u].lamports = minimum_balance(9) + 1
        /\ accounts[PdaOf(u)].lamports = minimum_balance(9)

\* C15: AddKarma and UpdateLevel change the data of an account only if this
\* program owns it; on an account another program owns they change nothing
C15_OnlyOwnedStorageMutated ==
    \A k \in Keys :
        accounts[k].owner # program_id =>
            \A d \in {add_karma_data(a) : a \in Amounts} \cup {update_level_data} :
                Call(<< k >>, {}, d).accts[k].data = accounts[k].data

\* C16: in every step (a call of any kind, succeeding or failing) a record
\* that is there stays there and its level does not go down
C16_LevelNeverDecreases ==
    [][\A p \in Pdas :
         IsRegistered(accounts, p) =>
             /\ IsRegistered(accounts', p)
             /\ RecordAt(accounts', p).level >= RecordAt(accounts, p).level]_vars

\* the level kept above a lower floor: karma has wrapped from 1000 to 999
\* under level 1 and UpdateLevel has just run on the record
C16_Witness ==
    \E p \in Pdas :
        /\ last.instr = "UpdateLevel" /\ last.res = "Ok" /\ last.key = p
        /\ IsRegistered(accounts, p)
        /\ RecordAt(accounts, p) = UserAccount(U64(999), 1)
        /\ new_level_of(RecordAt(accounts, p).karma) = 0

\* C17: a successful AddKarma(amount) takes the record {k, l} to
\* {k + amount, l}; UpdateLevel leaves karma as it was, writes nothing when
\* floor(karma / 1000) <= level, and run a second time directly after itself
\* leaves the record as the first run left it
C17_MutationFrames ==
    \A p \in Pdas :
        IsRegistered(accounts, p) =>
            LET rec == RecordAt(accounts, p)
                up == Call(<< p >>, {}, update_level_data)
                again == process_instruction(up.accts, << p >>, {},
                                             update_level_data, overflow_checks)
            IN  /\ \A amount \in Amounts :
                     LET r == Call(<< p >>, {}, add_karma_data(amount))
                         sum == exact_add(rec.karma \o << 0 >>, amount)
                     IN  r.res = "Ok" =>
                             /\ sum[5] = 0
                             /\ RecordAt(r.accts, p)
                                  = UserAccount(SubSeq(sum, 1, 4), rec.level)
                /\ up.res = "Ok"
                /\ RecordAt(up.accts, p).karma = rec.karma
                /\ U64Leq(FloorLevel(accounts, p), u8_as_u64(rec.level)) =>
                       up.accts = accounts
                /\ again.res = "Ok" /\ again.accts = up.accts

\* C18: a record that is there stays there in every step (a call of any
\* kind with any arguments, succeeding or failing): the account keeps its
\* content, this program as its owner and its 9 bytes
C18_ActiveIsAbsorbing ==
    [][\A p \in Pdas :
         IsRegistered(accounts, p) =>
             /\ ~data_is_empty(accounts'[p])
             /\ accounts'[p].owner = program_id
             /\ Len(accounts'[p].data) = 9
             /\ accounts'[p].lamports = accounts[p].lamports]_vars

\* a record that has come through a repeated RegisterUser, an AddKarma and
\* a panicking AddKarma: still there, owned by this program, 9 bytes
C18_Witness ==
    \E p \in Pdas :
        /\ last.instr = "AddKarma" /\ last.res = "Panic" /\ last.key = p
        /\ IsRegistered(accounts, p)
        /\ accounts[p].owner = program_id /\ Len(accounts[p].data) = 9
        /\ RecordAt(accounts, p).karma = U64(500)

\* calls on one record run one at a time, each on what the one before left:
\* the accounts at the end and the exact sum of the karma at the start and
\* the amounts of the AddKarma calls that succeeded
RECURSIVE run_calls(_, _, _, _)
run_calls(accts, total, key, calls) ==
    IF calls = << >> THEN [accts |-> accts, total |-> total]
    ELSE LET call == Head(calls)
             r == host_outcome(accts,
                      process_instruction(accts, << key >>, {}, call.data,
                                          overflow_checks))
         IN  run_calls(r.accts,
                       IF r.res = "Ok" THEN exact_add(total, call.amount) ELSE total,
                       key, Tail(calls))

\* two AddKarma calls and an UpdateLevel in every order, an UpdateLevel last
orders_of(a, b) ==
    LET A == [data |-> add_karma_data(a), amount |-> a]
        B == [data |-> add_karma_data(b), amount |-> b]
        U == [data |-> update_level_data, amount |-> U64(0)]
    IN  { << A, B, U, U >>, << B, A, U, U >>, << A, U, B, U >>,
          << B, U, A, U >>, << U, A, B, U >> , << U, B, A, U >> }

\* C19: AddKarma and UpdateLevel calls on one record, run one at a time in
\* any order, lose no update: after every order the karma is the karma at the
\* start plus the amounts of the AddKarma calls that succeeded, and two
\* orders with the same sum end, after a last UpdateLevel, at the same level
C19_NoLostUpdates ==
    \A p \in Pdas :
        IsRegistered(accounts, p) =>
            \A a, b \in Amounts :
                LET start == RecordAt(accounts, p).karma \o << 0 >>
                    out(o) == run_calls(accounts, start, p, o)
                IN  /\ \A o \in orders_of(a, b) :
                         /\ out(o).total[5] = 0
                         /\ RecordAt(out(o).accts, p).karma
                              = SubSeq(out(o).total, 1, 4)
                    /\ \A o1, o2 \in orders_of(a, b) :
                         out(o1).total = out(o2).total =>
                             RecordAt(out(o1).accts, p).level
                               = RecordAt(out(o2).accts, p).level

\* C20: distinct users have distinct derived keys; a step changes no derived
\* key but the one the call names, so a call on one user's record leaves
\* every other user's record (whether it is there, karma, level) as it was;
\* an account comes to hold content at a derived key only in a successful
\* RegisterUser of the user the key is derived from
C20_ParticipantsIsolated ==
    [][/\ \A u, v \in Users : u # v => PdaOf(u) # PdaOf(v)
       /\ \A q \in Pdas : q # last'.key => accounts'[q] = accounts[q]
       /\ \A u \in Users :
            (data_is_empty(accounts[PdaOf(u)])
               /\ ~data_is_empty(accounts'[PdaOf(u)])) =>
                /\ last'.instr = "RegisterUser" /\ last'.res = "Ok"
                /\ last'.user = u /\ last'.key = PdaOf(u)
                /\ \A k \in Keys \ {u, PdaOf(u)} : accounts'[k] = accounts[k]]_vars

\* two users side by side: AddKarma has just succeeded on the record of P1,
\* which holds 500, and the record of P2 is as RegisterUser left it
C20_Witness ==
    /\ last.instr = "AddKarma" /\ last.res = "Ok"
    /\ last.key = PdaOf(Key("P1"))
    /\ IsRegistered(accounts, PdaOf(Key("P1")))
    /\ IsRegistered(accounts, PdaOf(Key("P2")))
    /\ RecordAt(accounts, PdaOf(Key("P1"))) = UserAccount(U64(500), 0)
    /\ RecordAt(accounts, PdaOf(Key("P2"))) = UserAccount(U64(0), 0)
    /\ PdaOf(Key("P1")) # PdaOf(Key("P2"))

====
